---- MODULE Spec2Model ----
(***************************************************************************)
(* Model of the multi-agent research coordinator (agents/multi_agent.py)   *)
(* and of the hybrid retrieval pipeline (agents/retrieval.py).             *)
(*                                                                         *)
(*   Spec      one research() call of MultiAgentCoordinator: the calling   *)
(*             thread, the ThreadPoolExecutor's units and a discrete clock *)
(*   SpecRetr  HybridRetriever / EnhancedRetriever / CrossEncoderReranker  *)
(*   SpecSyn   MultiAgentCoordinator._synthesize's conflict detection      *)
(***************************************************************************)
EXTENDS Integers, Sequences, FiniteSets, TLC

VARIABLES
    \* ---- coordinator (multi_agent.py) ----
    strategy,      \* self.strategy
    agents,        \* self.agents: sequence of focus_areas sets
    focus_areas,   \* research(focus_areas=...)
    tasks,         \* the ResearchTask list of the call
    pc,            \* position of the calling thread inside research()
    now,           \* the clock (time.time())
    start,         \* `start` of _execute_parallel / _execute_sequential
    ptimeout,      \* the `timeout` parameter of the running _execute_* call
    ptasks,        \* the `tasks` parameter of _execute_parallel (task indices)
    units,         \* self._executor's work items = the keys of `futures`
    batch,         \* futures as_completed has collected and not yet yielded
    yielded,       \* futures as_completed has yielded
    findings,      \* the findings list
    order,         \* sorted(tasks, key=-priority), as task indices
    ti,            \* position in `order` (Sequential)
    ai,            \* index of the agent being tried (Sequential)
    outcome,       \* "none" while the call runs, then "returned" or "raised"
    exc,           \* the exception that left research(), if any
    \* ---- retriever (retrieval.py) ----
    index,         \* HybridRetriever._index: token -> sequence of (chunk_id, tf)
    chunks,        \* HybridRetriever._chunks: chunk_id -> Chunk
    nIndexed,      \* number of index_document calls made
    lastOp,        \* the last operation of the pipeline and its arguments
    results,       \* the list the last search / rerank returned
    use_semantic,  \* HybridRetriever.use_semantic
    adder,         \* position of a thread inside add_chunks
    \* ---- synthesis (multi_agent.py) ----
    synPc,         \* "call" before _synthesize runs, "done" after
    synFindings,   \* the findings handed to _synthesize
    conflicts,     \* the conflicts list of the SynthesizedResult
    summary,       \* SynthesizedResult.summary
    key_points,    \* SynthesizedResult.key_points
    consensus_confidence,  \* SynthesizedResult.consensus_confidence
    sources        \* SynthesizedResult.sources

coordVars == <<strategy, agents, focus_areas, tasks, pc, now, start, ptimeout,
               ptasks, units, batch, yielded, findings, order, ti, ai, outcome, exc>>
retrVars == <<index, chunks, nIndexed, lastOp, results, use_semantic, adder>>
synVars == <<synPc, synFindings, conflicts, summary, key_points,
             consensus_confidence, sources>>
vars == <<coordVars, retrVars, synVars>>

None == "None"

(***************************************************************************)
(* Bounds of the model.                                                    *)
(***************************************************************************)
MaxAgents == 2       \* registered agents: 0..MaxAgents
MaxFocus == 2        \* length of the focus_areas argument: 0..MaxFocus
MaxTime == 4         \* the clock stops at MaxTime
HalfTimeout == 1     \* research(timeout = 2 * HalfTimeout)
max_workers == 1     \* MultiAgentCoordinator(max_workers=...)

timeout == 2 * HalfTimeout

(***************************************************************************)
(* Generic helpers.                                                        *)
(***************************************************************************)
Range(s) == {s[i] : i \in 1..Len(s)}

SeqsUpTo(S, n) == UNION {[1..k -> S] : k \in 0..n}

Max(S) == CHOOSE x \in S : \A y \in S : y <= x

Min(S) == CHOOSE x \in S : \A y \in S : x <= y

(***************************************************************************)
(* ResearchAgent.can_handle: str.lower() on the focus areas in use.        *)
(***************************************************************************)
FocusInputs == {"Pricing", "faq"}

AgentFocusChoices == {{"pricing"}, {"pricing", "FAQ"}}

Lower(s) ==
    CASE s = "Pricing" -> "pricing"
      [] s = "FAQ" -> "faq"
      [] s = "Price" -> "price"
      [] s = "PRICE" -> "price"
      [] s = "AIRTIME" -> "airtime"
      [] s = "Airtime" -> "airtime"
      [] s = "POWER" -> "power"
      [] OTHER -> s

Upper(s) ==
    CASE s = "airtime" -> "AIRTIME"
      [] s = "Airtime" -> "AIRTIME"
      [] s = "power" -> "POWER"
      [] OTHER -> s

Chars100 == <<"1", "0", "0">>

Chars200 == <<"2", "0", "0">>

\* ResearchFinding.content of what agent a's research returns
WorkerContent(a) ==
    IF a = 1 THEN <<[label |-> "price", number |-> Chars100]>>
             ELSE <<[label |-> " Price", number |-> Chars200]>>

can_handle(a, focus_area) ==
    IF focus_area = None
    THEN TRUE
    ELSE Lower(focus_area) \in {Lower(fa) : fa \in agents[a]}

(***************************************************************************)
(* MultiAgentCoordinator._create_tasks                                     *)
(***************************************************************************)
NewTask(area, prio) ==
    [focus_area |-> area, priority |-> prio, status |-> "pending", error |-> None]

create_tasks(areas) ==
    IF Len(areas) > 0
    THEN [i \in 1..Len(areas) |-> NewTask(areas[i], Len(areas) - (i - 1))]
    ELSE <<NewTask(None, 1)>>

Terminal == {"completed", "failed", "timeout"}

(***************************************************************************)
(* The (task, agent) pairs _execute_parallel submits, in submission order. *)
(***************************************************************************)
RECURSIVE EligiblePairs(_, _, _)
EligiblePairs(ts, k, a) ==
    IF k > Len(ts) THEN <<>>
    ELSE IF a > Len(agents) THEN EligiblePairs(ts, k + 1, 1)
    ELSE IF can_handle(a, tasks[ts[k]].focus_area)
         THEN <<[agent |-> a, task |-> ts[k]]>> \o EligiblePairs(ts, k, a + 1)
         ELSE EligiblePairs(ts, k, a + 1)

(***************************************************************************)
(* sorted(tasks, key=lambda t: -t.priority): a stable insertion sort.      *)
(***************************************************************************)
\* InsertByPriority with the key t.priority in place of -t.priority
RECURSIVE InsertByPriorityAscending(_, _, _)
InsertByPriorityAscending(ts, sorted, t) ==
    IF sorted = <<>> THEN <<t>>
    ELSE IF ts[t].priority < ts[Head(sorted)].priority
         THEN <<t>> \o sorted
         ELSE <<Head(sorted)>> \o InsertByPriorityAscending(ts, Tail(sorted), t)

RECURSIVE InsertByPriority(_, _, _)
InsertByPriority(ts, sorted, t) ==
    IF sorted = <<>> THEN <<t>>
    ELSE IF ts[t].priority > ts[Head(sorted)].priority
         THEN <<t>> \o sorted
         ELSE <<Head(sorted)>> \o InsertByPriority(ts, Tail(sorted), t)

RECURSIVE SortedByPriority(_, _)
SortedByPriority(ts, n) ==
    IF n = 0 THEN <<>>
    ELSE InsertByPriority(ts, SortedByPriority(ts, n - 1), n)

Done(u) == units[u].state \in {"returned", "raised"}

Futures == 1..Len(units)

SetStatus(t, s) == [tasks EXCEPT ![t].status = s]

\* the first agent at or after index a that can handle task t, or 0
FirstEligible(t, a) ==
    LET S == {x \in a..Len(agents) : can_handle(x, tasks[t].focus_area)}
    IN IF S = {} THEN 0 ELSE Min(S)

(***************************************************************************)
(* Init: a coordinator with its agents, about to receive one research call.*)
(***************************************************************************)
CoordInit ==
    /\ strategy \in {"parallel", "sequential", "hierarchical"}
    /\ agents \in SeqsUpTo(AgentFocusChoices, MaxAgents)
    /\ focus_areas \in SeqsUpTo(FocusInputs, MaxFocus)
    /\ tasks = <<>>
    /\ pc = "idle"
    /\ now = 0
    /\ start = 0
    /\ ptimeout = 0
    /\ ptasks = <<>>
    /\ units = <<>>
    /\ batch = {}
    /\ yielded = {}
    /\ findings = <<>>
    /\ order = <<>>
    /\ ti = 0
    /\ ai = 0
    /\ outcome = "none"
    /\ exc = None

CoordIdle ==
    /\ strategy = "parallel"
    /\ agents = <<>>
    /\ focus_areas = <<>>
    /\ tasks = <<>>
    /\ pc = "off"
    /\ now = 0
    /\ start = 0
    /\ ptimeout = 0
    /\ ptasks = <<>>
    /\ units = <<>>
    /\ batch = {}
    /\ yielded = {}
    /\ findings = <<>>
    /\ order = <<>>
    /\ ti = 0
    /\ ai = 0
    /\ outcome = "none"
    /\ exc = None

RetrIdle ==
    /\ index = <<>>
    /\ chunks = <<>>
    /\ nIndexed = 0
    /\ lastOp = [op |-> "off"]
    /\ results = <<>>
    /\ use_semantic = FALSE
    /\ adder = [pc |-> "idle"]

SynIdle ==
    /\ synPc = "off"
    /\ synFindings = <<>>
    /\ conflicts = <<>>
    /\ summary = None
    /\ key_points = <<>>
    /\ consensus_confidence = <<0, 1>>
    /\ sources = <<>>

(***************************************************************************)
(* research(): lines 205-219.  _synthesize keeps the findings list as the  *)
(* result's `findings`.                                                    *)
(***************************************************************************)
ReturnResult ==
    /\ pc' = "done"
    /\ outcome' = "returned"

RaiseOut(e) ==
    /\ pc' = "done"
    /\ outcome' = "raised"
    /\ exc' = e

Research ==
    /\ pc = "idle"
    /\ tasks' = create_tasks(focus_areas)
    /\ start' = now
    /\ CASE strategy = "parallel" ->
              /\ pc' = "submit"
              /\ ptasks' = [i \in 1..Len(tasks') |-> i]
              /\ ptimeout' = timeout
              /\ order' = order
              /\ ti' = ti
              /\ outcome' = outcome
         [] strategy = "sequential" ->
              /\ pc' = "seq_loop"
              /\ order' = SortedByPriority(tasks', Len(tasks'))
              /\ ti' = 1
              /\ ptimeout' = timeout
              /\ ptasks' = ptasks
              /\ outcome' = outcome
         [] OTHER ->
              /\ IF agents = <<>> THEN ReturnResult
                                  ELSE pc' = "lead_run" /\ outcome' = outcome
              /\ UNCHANGED <<ptasks, ptimeout, order, ti>>
    /\ UNCHANGED <<strategy, agents, focus_areas, now, units, batch, yielded,
                   findings, ai, exc>>

(***************************************************************************)
(* _execute_parallel, lines 259-273: one executor.submit per step.         *)
(***************************************************************************)
\* enriched_context without the lead_finding key of line 349
enriched_contextPlain(lead_finding) == <<>>

\* lines 347-350: the caller's context and the lead's content
enriched_context(lead_finding) == [lead_finding |-> WorkerContent(lead_finding.agent)]

\* the `context` argument of the running _execute_parallel call: research's
\* own context (line 214), a dict without keys, or enriched_context (line 354)
call_context ==
    IF strategy = "hierarchical" THEN enriched_context(findings[1]) ELSE <<>>

Submit ==
    /\ pc = "submit"
    /\ Len(units) < Len(EligiblePairs(ptasks, 1, 1))
    /\ LET p == EligiblePairs(ptasks, 1, 1)[Len(units) + 1]
       IN units' = Append(units, [agent |-> p.agent, task |-> p.task, state |-> "queued",
                                  context |-> call_context])
    /\ UNCHANGED <<strategy, agents, focus_areas, tasks, pc, now, start, ptimeout,
                   ptasks, batch, yielded, findings, order, ti, ai, outcome, exc>>

(***************************************************************************)
(* lines 276-279: start = time.time(); as_completed(futures, timeout)      *)
(* first takes the futures that have already finished.                     *)
(***************************************************************************)
BeginCollect ==
    /\ pc = "submit"
    /\ Len(units) = Len(EligiblePairs(ptasks, 1, 1))
    /\ start' = now
    /\ batch' = {u \in Futures : Done(u)}
    /\ yielded' = {}
    /\ pc' = "collect"
    /\ UNCHANGED <<strategy, agents, focus_areas, tasks, now, ptimeout, ptasks,
                   units, findings, order, ti, ai, outcome, exc>>

(***************************************************************************)
(* lines 279-291: the body of the for loop on one yielded future.          *)
(***************************************************************************)
CollectYield ==
    /\ pc = "collect"
    /\ \E u \in batch :
         /\ batch' = batch \ {u}
         /\ yielded' = yielded \cup {u}
         /\ IF units[u].state = "returned"
            THEN /\ findings' = Append(findings, [agent |-> units[u].agent, task |-> units[u].task])
                 /\ tasks' = SetStatus(units[u].task, "completed")
            ELSE /\ findings' = findings
                 /\ tasks' = [tasks EXCEPT ![units[u].task].status = "failed",
                                           ![units[u].task].error = "error"]
    /\ IF now - start > ptimeout
       THEN ReturnResult
       ELSE pc' = pc /\ outcome' = outcome
    /\ UNCHANGED <<strategy, agents, focus_areas, now, start, ptimeout, ptasks,
                   units, order, ti, ai, exc>>

(***************************************************************************)
(* concurrent.futures.as_completed between two yields: with futures        *)
(* pending it raises TimeoutError once the deadline has passed, else it    *)
(* waits for the next finished futures; with none pending it ends.         *)
(***************************************************************************)
CollectWait ==
    /\ pc = "collect"
    /\ batch = {}
    /\ Futures \ yielded # {}
    /\ IF now - start > ptimeout
       THEN /\ RaiseOut("TimeoutError")
            /\ batch' = batch
       ELSE /\ {u \in Futures \ yielded : Done(u)} # {}
            /\ batch' = {u \in Futures \ yielded : Done(u)}
            /\ UNCHANGED <<pc, outcome, exc>>
    /\ UNCHANGED <<strategy, agents, focus_areas, tasks, now, start, ptimeout,
                   ptasks, units, yielded, findings, order, ti, ai>>

CollectEnd ==
    /\ pc = "collect"
    /\ batch = {}
    /\ Futures \ yielded = {}
    /\ ReturnResult
    /\ UNCHANGED <<strategy, agents, focus_areas, tasks, now, start, ptimeout,
                   ptasks, units, batch, yielded, findings, order, ti, ai, exc>>

(***************************************************************************)
(* A pool thread of self._executor runs _run_agent_task (lines 359-381).   *)
(* The executor is never shut down by research(), so units go on running   *)
(* after the call has ended.                                               *)
(***************************************************************************)
UnitStart ==
    \E u \in Futures :
      /\ units[u].state = "queued"
      /\ \A v \in 1..(u - 1) : units[v].state # "queued"
      /\ Cardinality({v \in Futures : units[v].state = "running"}) < max_workers
      /\ units' = [units EXCEPT ![u].state = "running"]
      /\ tasks' = SetStatus(units[u].task, "running")
      /\ UNCHANGED <<strategy, agents, focus_areas, pc, now, start, ptimeout, ptasks,
                     batch, yielded, findings, order, ti, ai, outcome, exc>>

UnitReturn ==
    \E u \in Futures :
      /\ units[u].state = "running"
      /\ units' = [units EXCEPT ![u].state = "returned"]
      /\ UNCHANGED <<strategy, agents, focus_areas, tasks, pc, now, start, ptimeout,
                     ptasks, batch, yielded, findings, order, ti, ai, outcome, exc>>

UnitRaise ==
    \E u \in Futures :
      /\ units[u].state = "running"
      /\ units' = [units EXCEPT ![u].state = "raised"]
      /\ UNCHANGED <<strategy, agents, focus_areas, tasks, pc, now, start, ptimeout,
                     ptasks, batch, yielded, findings, order, ti, ai, outcome, exc>>

(***************************************************************************)
(* _execute_sequential, lines 309-326.                                     *)
(***************************************************************************)
\* SeqTask without the deadline check of lines 310-312
SeqTaskNoDeadline ==
    /\ pc = "seq_loop"
    /\ IF ti > Len(order)
       THEN /\ ReturnResult
            /\ UNCHANGED <<tasks, ti, ai>>
       ELSE /\ pc' = "seq_scan"
            /\ ai' = 1
            /\ UNCHANGED <<tasks, ti, outcome>>
    /\ UNCHANGED <<strategy, agents, focus_areas, now, start, ptimeout, ptasks,
                   units, batch, yielded, findings, order, exc>>

SeqTask ==
    /\ pc = "seq_loop"
    /\ IF ti > Len(order)
       THEN /\ ReturnResult
            /\ UNCHANGED <<tasks, ti, ai>>
       ELSE IF now - start > ptimeout
            THEN /\ tasks' = SetStatus(order[ti], "timeout")
                 /\ ti' = ti + 1
                 /\ UNCHANGED <<pc, ai, outcome>>
            ELSE /\ pc' = "seq_scan"
                 /\ ai' = 1
                 /\ UNCHANGED <<tasks, ti, outcome>>
    /\ UNCHANGED <<strategy, agents, focus_areas, now, start, ptimeout, ptasks,
                   units, batch, yielded, findings, order, exc>>

\* lines 315-318 and 369: the next capable agent is called inline
SeqScan ==
    /\ pc = "seq_scan"
    /\ LET a == FirstEligible(order[ti], ai)
       IN IF a = 0
          THEN /\ pc' = "seq_loop"
               /\ ti' = ti + 1
               /\ UNCHANGED <<tasks, ai>>
          ELSE /\ pc' = "seq_run"
               /\ ai' = a
               /\ tasks' = SetStatus(order[ti], "running")
               /\ ti' = ti
    /\ UNCHANGED <<strategy, agents, focus_areas, now, start, ptimeout, ptasks,
                   units, batch, yielded, findings, order, outcome, exc>>

\* lines 318-321
SeqInlineReturn ==
    /\ pc = "seq_run"
    /\ findings' = Append(findings, [agent |-> ai, task |-> order[ti]])
    /\ tasks' = SetStatus(order[ti], "completed")
    /\ ti' = ti + 1
    /\ pc' = "seq_loop"
    /\ UNCHANGED <<strategy, agents, focus_areas, now, start, ptimeout, ptasks,
                   units, batch, yielded, order, ai, outcome, exc>>

\* lines 322-324: no break, the for loop goes on with the next agent
SeqInlineRaise ==
    /\ pc = "seq_run"
    /\ tasks' = [tasks EXCEPT ![order[ti]].status = "failed",
                              ![order[ti]].error = "error"]
    /\ ai' = ai + 1
    /\ pc' = "seq_scan"
    /\ UNCHANGED <<strategy, agents, focus_areas, now, start, ptimeout, ptasks,
                   units, batch, yielded, findings, order, ti, outcome, exc>>

(***************************************************************************)
(* _execute_hierarchical, lines 339-357: lead.research runs inline and     *)
(* outside any try; then _execute_parallel(sub_tasks, ..., timeout / 2)    *)
(* over self.agents.                                                       *)
(***************************************************************************)
sub_tasks ==
    IF Len(tasks) > 1 THEN [i \in 1..(Len(tasks) - 1) |-> i + 1]
                      ELSE [i \in 1..Len(tasks) |-> i]

LeadReturn ==
    /\ pc = "lead_run"
    /\ findings' = <<[agent |-> 1, task |-> 0]>>
    /\ ptasks' = sub_tasks
    /\ ptimeout' = HalfTimeout
    /\ pc' = "submit"
    /\ UNCHANGED <<strategy, agents, focus_areas, tasks, now, start, units, batch,
                   yielded, order, ti, ai, outcome, exc>>

LeadRaise ==
    /\ pc = "lead_run"
    /\ RaiseOut("WorkerError")
    /\ UNCHANGED <<strategy, agents, focus_areas, tasks, now, start, ptimeout,
                   ptasks, units, batch, yielded, findings, order, ti, ai>>

\* the call is made at time 0; the clock runs from then on
Tick ==
    /\ pc \notin {"off", "idle"}
    /\ now < MaxTime
    /\ now' = now + 1
    /\ UNCHANGED <<strategy, agents, focus_areas, tasks, pc, start, ptimeout, ptasks,
                   units, batch, yielded, findings, order, ti, ai, outcome, exc>>

\* the steps the calling thread takes by itself
CoordStep ==
    \/ Research
    \/ Submit
    \/ BeginCollect
    \/ CollectYield
    \/ CollectWait
    \/ CollectEnd
    \/ SeqTask
    \/ SeqScan

\* the steps that are a worker's research call starting or ending
WorkerStep ==
    \/ UnitStart
    \/ UnitReturn
    \/ UnitRaise
    \/ SeqInlineReturn
    \/ SeqInlineRaise
    \/ LeadReturn
    \/ LeadRaise

(***************************************************************************)
(* Claims about the coordinator, checked under Spec.                       *)
(***************************************************************************)
Outstanding == {u \in Futures : ~Done(u)}

FindingUnits == {u \in Futures : \E i \in 1..Len(findings) :
                    /\ findings[i].agent = units[u].agent
                    /\ findings[i].task = units[u].task}

\* C1: in Parallel strategy, when the call ends at the deadline with a unit
\* still outstanding, research has returned a result (it did not raise) and
\* the result holds no finding of an outstanding unit.
C1_ParallelDeadlineReturns ==
    (strategy = "parallel" /\ outcome # "none"
        /\ \E u \in Outstanding : units[u].state = "running")
        => (outcome = "returned" /\ FindingUnits \cap Outstanding = {})

\* C2: under every strategy a worker's exception never leaves research().
C2_WorkerExceptionCaught ==
    outcome = "raised" => exc # "WorkerError"

AllowedTransition(a, b) ==
    \/ a = b
    \/ a = "pending" /\ b \in {"running", "timeout"}
    \/ a = "running" /\ b \in Terminal

\* C3: every status change of a task follows
\* pending -> running -> {completed, failed, timeout} (or pending -> timeout);
\* a terminal status never changes again.
C3_StatusStateMachine ==
    [][\A t \in DOMAIN tasks :
          t \in DOMAIN tasks' => AllowedTransition(tasks[t].status, tasks'[t].status)]_vars

\* C4: once the overall deadline has elapsed, a research call that has not
\* ended is never blocked on a worker: the calling thread can take a step
\* by itself.
C4_NoBlockPastDeadline ==
    (outcome = "none" /\ pc # "idle" /\ now > timeout) => ENABLED CoordStep

(***************************************************************************)
(* Exact arithmetic on the scores: a score is a reduced fraction <<n, d>>. *)
(***************************************************************************)
RECURSIVE GCD(_, _)
GCD(a, b) == IF b = 0 THEN a ELSE GCD(b, a % b)

Abs(x) == IF x < 0 THEN -x ELSE x

R(n, d) ==
    LET g == GCD(Abs(n), Abs(d))
        sgn == IF d < 0 THEN -1 ELSE 1
    IN IF n = 0 THEN <<0, 1>> ELSE <<(sgn * n) \div g, (sgn * d) \div g>>

RAdd(x, y) == R(x[1] * y[2] + y[1] * x[2], x[2] * y[2])

RMul(x, y) == R(x[1] * y[1], x[2] * y[2])

RDiv(x, y) == R(x[1] * y[2], x[2] * y[1])

RLt(x, y) == x[1] * y[2] < y[1] * x[2]

RMin(x, y) == IF RLt(y, x) THEN y ELSE x

Zero == R(0, 1)

One == R(1, 1)

RECURSIVE RSum(_)
RSum(s) == IF s = <<>> THEN Zero ELSE RAdd(Head(s), RSum(Tail(s)))

RMaxOf(S) == CHOOSE x \in S : \A y \in S : ~RLt(x, y)

(***************************************************************************)
(* The documents of the model.  A document is given as the sections        *)
(* _split_by_sections finds in it, a section as its title and its          *)
(* paragraphs (the blocks text.split('\n\n') yields), a paragraph as its   *)
(* words, which single spaces separate.                                    *)
(***************************************************************************)
ParaPower == <<"Prices", "of", "electricity", "tariff", "electricity", "prepaid", "meters">>

ParaAirtime == <<"airtime", "recharge", "bundles", "prices", "network", "discounts", "apply">>

ParaShort == <<"airtime", "bundles", "discounts">>

ParaLegacy == <<"legacy", "tariff", "prices", "electricity", "prepaid", "meters", "apply">>

DocPower == <<[title |-> "Power", paras |-> <<ParaPower>>]>>

DocLegacy == <<[title |-> None, paras |-> <<ParaLegacy>>]>>

DocBoth == <<[title |-> "Power", paras |-> <<ParaPower>>],
             [title |-> "Short", paras |-> <<ParaShort>>],
             [title |-> "Airtime", paras |-> <<ParaAirtime, ParaShort>>]>>

\* one section that _chunk_text cuts into several chunks
DocLong == <<[title |-> "Legacy", paras |-> <<ParaLegacy, ParaPower>>]>>

\* the two sections of the end-to-end example: 30 and 28 characters
ParaRate == <<"Our", "rate", "is", "50", "naira", "per", "unit.">>

ParaOrder == <<"Maximum", "order", "is", "1000", "units.">>

DocExample == <<[title |-> "Pricing", paras |-> <<ParaRate>>],
                [title |-> "Limits", paras |-> <<ParaOrder>>]>>

\* a section that repeats one word of a query and lacks the other
ParaGrid == <<"electricity", "tariff", "electricity", "meters", "electricity", "prepaid">>

DocGrid == <<[title |-> "Grid", paras |-> <<ParaGrid>>]>>

\* the documents handed to index_document, with their domain and tenant_id
Documents ==
    {[content |-> DocPower, domain |-> "power", tenant_id |-> "t2"],
     [content |-> DocLegacy, domain |-> "AIRTIME", tenant_id |-> "t1"],
     [content |-> DocBoth, domain |-> None, tenant_id |-> None],
     [content |-> DocLong, domain |-> "Airtime", tenant_id |-> None]}

DocIds == {"d1", "d2"}

Queries == {<<"PRICES">>, <<"electricity", "prices">>,
            <<"price", "electricity", "electricity", "apply">>}

\* the (domain, tenant_id) filters of a search
Filters == {<<None, None>>, <<"airtime", None>>, <<None, "t1">>}

NoTopK == -1

Limits == {1, 2}

MinScores == {Zero, R(1, 2)}

\* top_k: Optional[int]; NoTopK stands for None
TopKs == {NoTopK, 0, 1}

LowerWord(w) ==
    CASE w = "Prices" \/ w = "PRICES" -> "prices"
      [] w = "Our" -> "our"
      [] w = "Maximum" -> "maximum"
      [] OTHER -> Lower(w)

\* re.findall(r'\b\w+\b', text.lower()) on one word: the word without its
\* punctuation
Token(w) ==
    CASE w = "unit." -> "unit"
      [] w = "units." -> "units"
      [] OTHER -> LowerWord(w)

LowerSeq(ws) == [i \in 1..Len(ws) |-> LowerWord(ws[i])]

\* a is a proper prefix of b, for the words of the model
ProperPrefix(a, b) == <<a, b>> \in {<<"price", "prices">>, <<"discount", "discounts">>}

RECURSIVE SumLen(_)
SumLen(ws) == IF ws = <<>> THEN 0 ELSE Len(Head(ws)) + SumLen(Tail(ws))

\* len() of a paragraph and of a section's stripped content
ParaLen(p) == SumLen(p) + (Len(p) - 1)

RECURSIVE SumParaLen(_)
SumParaLen(ps) == IF ps = <<>> THEN 0 ELSE ParaLen(Head(ps)) + SumParaLen(Tail(ps))

TextLen(ps) == SumParaLen(ps) + 2 * (Len(ps) - 1)

RECURSIVE Flatten(_)
Flatten(ps) == IF ps = <<>> THEN <<>> ELSE Head(ps) \o Flatten(Tail(ps))

(***************************************************************************)
(* ContextualChunker                                                       *)
(***************************************************************************)
chunk_size == 100

chunk_overlap == 100

min_chunk_size == 50

\* _chunk_text, lines 194-231
RECURSIVE chunk_text(_, _, _, _, _)
chunk_text(paras, i, current_chunk, current_length, acc) ==
    IF i > Len(paras)
    THEN IF current_chunk # <<>> THEN Append(acc, current_chunk) ELSE acc
    ELSE LET para_length == ParaLen(paras[i])
         IN IF current_length + para_length > chunk_size /\ current_chunk # <<>>
            THEN LET overlap_text == current_chunk[Len(current_chunk)]
                     keep == chunk_overlap > 0 /\ ParaLen(overlap_text) <= chunk_overlap
                 IN chunk_text(paras, i + 1,
                               IF keep THEN <<overlap_text, paras[i]>> ELSE <<paras[i]>>,
                               (IF keep THEN ParaLen(overlap_text) ELSE 0) + para_length,
                               Append(acc, current_chunk))
            ELSE chunk_text(paras, i + 1, Append(current_chunk, paras[i]),
                            current_length + para_length, acc)

\* _generate_chunk_id: a function of doc_id and index alone
generate_chunk_id(doc_id, idx) == <<doc_id, idx>>

\* chunk_document, lines 123-163: the chunks before total_chunks is set
RECURSIVE SectionChunks(_, _, _, _, _, _)
SectionChunks(sections, k, chunk_index, doc_id, domain, tenant_id) ==
    IF k > Len(sections) THEN <<>>
    ELSE IF TextLen(sections[k].paras) < min_chunk_size
         THEN SectionChunks(sections, k + 1, chunk_index, doc_id, domain, tenant_id)
         ELSE LET section_chunks == chunk_text(sections[k].paras, 1, <<>>, 0, <<>>)
                  made == [i \in 1..Len(section_chunks) |->
                             [chunk_id |-> generate_chunk_id(doc_id, chunk_index + i - 1),
                              content |-> section_chunks[i],
                              doc_id |-> doc_id,
                              chunk_index |-> chunk_index + i - 1,
                              total_chunks |-> 1,
                              section_title |-> sections[k].title,
                              domain |-> domain,
                              tenant_id |-> tenant_id]]
              IN made \o SectionChunks(sections, k + 1, chunk_index + Len(section_chunks),
                                       doc_id, domain, tenant_id)

\* chunk_document without the loop of lines 165-166 that sets total_chunks
chunk_documentNoTotal(content, doc_id, domain, tenant_id) ==
    SectionChunks(content, 1, 0, doc_id, domain, tenant_id)

\* chunk_document, lines 114-168
chunk_document(content, doc_id, domain, tenant_id) ==
    LET cs == SectionChunks(content, 1, 0, doc_id, domain, tenant_id)
    IN [i \in 1..Len(cs) |-> [cs[i] EXCEPT !.total_chunks = Len(cs)]]

(***************************************************************************)
(* HybridRetriever: _index_chunk and add_chunks, lines 317-340.            *)
(* _index maps a token to its postings; a token is "in self._index" when   *)
(* its list of postings is not empty.                                      *)
(***************************************************************************)
Vocab == {Token(w) : w \in Range(ParaPower) \cup Range(ParaAirtime)
                            \cup Range(ParaShort) \cup Range(ParaLegacy)
                            \cup Range(ParaRate) \cup Range(ParaOrder)}

Tokens(chunk) == [i \in 1..Len(Flatten(chunk.content)) |-> Token(Flatten(chunk.content)[i])]

Count(ws, w) == Cardinality({i \in 1..Len(ws) : ws[i] = w})

index_chunk(idx, chunk) ==
    LET tokens == Tokens(chunk)
        total_tokens == IF Len(tokens) = 0 THEN 1 ELSE Len(tokens)
    IN [t \in DOMAIN idx |->
          IF Len(t) > 2 /\ Count(tokens, t) > 0
          THEN Append(idx[t], <<chunk.chunk_id, R(Count(tokens, t), total_tokens)>>)
          ELSE idx[t]]

PutChunk(cs, chunk) ==
    [id \in DOMAIN cs \cup {chunk.chunk_id} |->
        IF id = chunk.chunk_id THEN chunk ELSE cs[id]]

\* add_chunks: the state <<_index, _chunks>> after adding the chunks k..n
RECURSIVE add_chunks(_, _, _, _)
add_chunks(idx, cs, new, k) ==
    IF k > Len(new) THEN <<idx, cs>>
    ELSE add_chunks(index_chunk(idx, new[k]), PutChunk(cs, new[k]), new, k + 1)

(***************************************************************************)
(* HybridRetriever._keyword_search, lines 415-438                          *)
(***************************************************************************)
InIndex(idx, t) == t \in DOMAIN idx /\ idx[t] # <<>>

idf(idx, cs, t) ==
    LET df == Len(idx[t])
        total_docs == IF Cardinality(DOMAIN cs) = 0 THEN 1 ELSE Cardinality(DOMAIN cs)
    IN RAdd(One, RDiv(R(2 * (total_docs - df) + 1, 2), R(2 * df + 1, 2)))

\* what the postings of token t add to the score of chunk id
TokenScore(idx, cs, t, id) ==
    IF InIndex(idx, t)
    THEN RSum([j \in 1..Len(idx[t]) |->
                 IF idx[t][j][1] = id THEN RMul(idx[t][j][2], idf(idx, cs, t)) ELSE Zero])
    ELSE Zero

RawScores(idx, cs, query_tokens) ==
    LET ids == UNION {{idx[query_tokens[i]][j][1] : j \in 1..Len(idx[query_tokens[i]])} :
                        i \in {k \in 1..Len(query_tokens) : InIndex(idx, query_tokens[k])}}
    IN [id \in ids |->
          RSum([i \in 1..Len(query_tokens) |-> TokenScore(idx, cs, query_tokens[i], id)])]

\* NormalizeByMax without the division of line 436
NormalizeNot(scores) == scores

NormalizeByMax(scores) ==
    IF DOMAIN scores = {} THEN scores
    ELSE LET max_score == RMaxOf({scores[k] : k \in DOMAIN scores})
         IN IF RLt(Zero, max_score)
            THEN [k \in DOMAIN scores |-> RDiv(scores[k], max_score)]
            ELSE scores

keyword_search(idx, cs, query) ==
    NormalizeByMax(RawScores(idx, cs, LowerSeq(query)))

(***************************************************************************)
(* HybridRetriever.search, lines 363-413                                   *)
(***************************************************************************)
keyword_weight == R(4, 10)

semantic_weight == R(6, 10)

\* PassesFilters without the tenant check of lines 383-384
PassesFiltersNoTenant(chunk, domain, tenant_id) ==
    ~(domain # None /\ chunk.domain # None /\ Upper(chunk.domain) # Upper(domain))

\* lines 381-384
PassesFilters(chunk, domain, tenant_id) ==
    /\ ~(domain # None /\ chunk.domain # None /\ Upper(chunk.domain) # Upper(domain))
    /\ ~(tenant_id # None /\ chunk.tenant_id # None /\ chunk.tenant_id # tenant_id)

\* lines 386-407; _semantic_search returns {} so sem_score is 0.0
MakeResult(chunk, kw_score, sem) ==
    [chunk |-> chunk,
     keyword_score |-> kw_score,
     semantic_score |-> Zero,
     rerank_score |-> Zero,
     final_score |-> IF sem THEN RAdd(RMul(keyword_weight, kw_score), RMul(semantic_weight, Zero))
                            ELSE kw_score,
     retrieval_method |-> IF sem THEN "hybrid" ELSE "keyword"]

RECURSIVE SelectSeq2(_, _, _, _, _, _, _)
SelectSeq2(ids, k, cs, kw, domain, tenant_id, min_score) ==
    IF k > Len(ids) THEN <<>>
    ELSE LET r == MakeResult(cs[ids[k]], kw[ids[k]], use_semantic)
             rest == SelectSeq2(ids, k + 1, cs, kw, domain, tenant_id, min_score)
         IN IF ids[k] \notin DOMAIN cs THEN rest
            ELSE IF ~PassesFilters(cs[ids[k]], domain, tenant_id) THEN rest
            ELSE IF RLt(r.final_score, min_score) THEN rest
            ELSE <<r>> \o rest

\* list.sort(key=final_score, reverse=True): stable, descending
RECURSIVE InsertByScore(_, _)
InsertByScore(sorted, r) ==
    IF sorted = <<>> THEN <<r>>
    ELSE IF RLt(Head(sorted).final_score, r.final_score)
         THEN <<r>> \o sorted
         ELSE <<Head(sorted)>> \o InsertByScore(Tail(sorted), r)

RECURSIVE SortByScore(_)
SortByScore(rs) ==
    IF rs = <<>> THEN <<>>
    ELSE InsertByScore(SortByScore(SubSeq(rs, 1, Len(rs) - 1)), rs[Len(rs)])

Take(s, n) == SubSeq(s, 1, IF n < Len(s) THEN n ELSE Len(s))

RECURSIVE Perms(_)
Perms(S) ==
    IF S = {} THEN {<<>>}
    ELSE UNION {{<<x>> \o p : p \in Perms(S \ {x})} : x \in S}

\* lines 371-413: the fusion loop over all_chunk_ids, iterated in the order
\* `ids` (the iteration order of a Python set is arbitrary), the sort, the cut
fuse_scores(cs, keyword_scores, limit, domain, tenant_id, min_score, ids) ==
    Take(SortByScore(SelectSeq2(ids, 1, cs, keyword_scores, domain, tenant_id, min_score)),
         limit)

(***************************************************************************)
(* CrossEncoderReranker, lines 461-534                                     *)
(***************************************************************************)
\* `query_lower in doc_lower` for a query of words and a paragraph of words
PhraseAt(q, para, i) ==
    /\ i + Len(q) - 1 <= Len(para)
    /\ IF Len(q) = 1
       THEN q[1] = para[i] \/ ProperPrefix(q[1], para[i])
       ELSE /\ q[1] = para[i]
            /\ \A k \in 2..(Len(q) - 1) : q[k] = para[i + k - 1]
            /\ LET last == para[i + Len(q) - 1]
               IN q[Len(q)] = last \/ ProperPrefix(q[Len(q)], last)

PhraseIn(q, content) ==
    \/ q = <<>>
    \/ \E p \in 1..Len(content) : \E i \in 1..Len(content[p]) :
          PhraseAt(q, LowerSeq(content[p]), i)

\* the offset of word i of paragraph p in the chunk's text
RECURSIVE OffsetOf(_, _, _)
OffsetOf(content, p, i) ==
    IF i > 1 THEN OffsetOf(content, p, i - 1) + Len(content[p][i - 1]) + 1
    ELSE IF p > 1 THEN OffsetOf(content, p - 1, Len(content[p - 1]))
                       + Len(content[p - 1][Len(content[p - 1])]) + 2
    ELSE 0

\* `word in first_100_chars`
InFirst100(word, content) ==
    \E p \in 1..Len(content) : \E i \in 1..Len(content[p]) :
       /\ word = LowerWord(content[p][i]) \/ ProperPrefix(word, LowerWord(content[p][i]))
       /\ OffsetOf(content, p, i) + Len(word) <= 100

score_pair(query, content) ==
    LET q == LowerSeq(query)
        query_words == Range(q)
        doc_words == Range(LowerSeq(Flatten(content)))
        n == Cardinality(query_words)
        overlap == R(Cardinality(query_words \cap doc_words), n)
        early_matches == Cardinality({w \in query_words : InFirst100(w, content)})
        early_bonus == RMul(R(early_matches, n), R(2, 10))
    IN IF PhraseIn(q, content) THEN One
       ELSE IF query_words = {} THEN Zero
       ELSE RMin(One, RAdd(overlap, early_bonus))

\* lines 482-488
Rescore(query, r) ==
    LET s == score_pair(query, r.chunk.content)
    IN [r EXCEPT !.rerank_score = s,
                 !.final_score = RAdd(RMul(R(3, 10), r.final_score), RMul(R(7, 10), s))]

\* rerank returning the first result a second time when it is not cut
rerankPadded(query, rs, top_k) ==
    IF rs = <<>> THEN rs
    ELSE LET sorted == SortByScore([i \in 1..Len(rs) |-> Rescore(query, rs[i])])
         IN IF top_k # NoTopK /\ top_k # 0 THEN Take(sorted, top_k)
            ELSE IF Len(sorted) > 1 THEN Append(sorted, sorted[1]) ELSE sorted

rerank(query, rs, top_k) ==
    IF rs = <<>> THEN rs
    ELSE LET sorted == SortByScore([i \in 1..Len(rs) |-> Rescore(query, rs[i])])
         IN IF top_k # NoTopK /\ top_k # 0 THEN Take(sorted, top_k) ELSE sorted

(***************************************************************************)
(* The pipeline's operations as actions.                                   *)
(***************************************************************************)
MaxIndexOps == 2     \* index_document calls in one behaviour

RetrInit ==
    /\ index = [t \in Vocab |-> <<>>]
    /\ chunks = <<>>
    /\ nIndexed = 0
    /\ lastOp = [op |-> "init"]
    /\ results = <<>>
    /\ use_semantic \in BOOLEAN
    /\ adder = [pc |-> "idle"]

\* search and rerank leave _index and _chunks as they are: the behaviours
\* make every index_document call first and then one search, which a rerank
\* of the returned list may follow.
Indexing == lastOp.op \in {"init", "index"}

\* EnhancedRetriever.index_document, lines 557-574
IndexDocument ==
    /\ Indexing
    /\ nIndexed < MaxIndexOps
    /\ \E d \in Documents, doc_id \in DocIds :
         LET new == chunk_document(d.content, doc_id, d.domain, d.tenant_id)
             st == add_chunks(index, chunks, new, 1)
         IN /\ index' = st[1]
            /\ chunks' = st[2]
            /\ lastOp' = [op |-> "index", content |-> d.content, doc_id |-> doc_id,
                          domain |-> d.domain, tenant_id |-> d.tenant_id,
                          count |-> Len(new)]
    /\ nIndexed' = nIndexed + 1
    /\ UNCHANGED <<results, use_semantic, adder>>

\* HybridRetriever.search, lines 363-413
Search ==
    /\ Indexing
    /\ \E query \in Queries :
         \E keyword_scores \in {keyword_search(index, chunks, query)} :
            \E ids \in Perms(DOMAIN keyword_scores) :
              \E limit \in Limits, f \in Filters, min_score \in MinScores :
                /\ results' = fuse_scores(chunks, keyword_scores, limit, f[1], f[2],
                                          min_score, ids)
                /\ lastOp' = [op |-> "search", query |-> query, limit |-> limit,
                              domain |-> f[1], tenant_id |-> f[2], min_score |-> min_score]
    /\ UNCHANGED <<index, chunks, nIndexed, use_semantic, adder>>

\* CrossEncoderReranker.rerank on the list a search returned
Rerank ==
    /\ lastOp.op = "search"
    /\ \E top_k \in TopKs :
         /\ results' = rerank(lastOp.query, results, top_k)
         /\ lastOp' = [op |-> "rerank", query |-> lastOp.query, given |-> results,
                       top_k |-> top_k]
    /\ UNCHANGED <<index, chunks, nIndexed, use_semantic, adder>>

NextRetr ==
    \/ (IndexDocument /\ UNCHANGED <<coordVars, synVars>>)
    \/ (Search /\ UNCHANGED <<coordVars, synVars>>)
    \/ (Rerank /\ UNCHANGED <<coordVars, synVars>>)

InitRetr == CoordIdle /\ RetrInit /\ SynIdle

SpecRetr == InitRetr /\ [][NextRetr]_vars

(***************************************************************************)
(* EnhancedRetriever with its default arguments: use_semantic=False and a  *)
(* reranker. index_document and search are the two calls of its interface. *)
(***************************************************************************)
PipeDocuments ==
    {[content |-> DocExample, domain |-> None, tenant_id |-> None],
     [content |-> DocGrid, domain |-> "power", tenant_id |-> "t2"],
     [content |-> DocLegacy, domain |-> "AIRTIME", tenant_id |-> "t1"],
     [content |-> DocBoth, domain |-> None, tenant_id |-> None]}

PipeQueries == {<<"price">>, <<"rate">>, <<"electricity", "prices">>}

\* pipeline_search asking the retriever for limit candidates in every case
pipeline_searchNoOverfetch(cs, keyword_scores, query, limit, domain, tenant_id, rerank_flag, ids) ==
    LET found == fuse_scores(cs, keyword_scores, limit, domain, tenant_id, Zero, ids)
        ranked == IF rerank_flag /\ found # <<>> THEN rerank(query, found, limit) ELSE found
    IN Take(ranked, limit)

\* EnhancedRetriever.search, lines 598-611, with self.reranker set
pipeline_search(cs, keyword_scores, query, limit, domain, tenant_id, rerank_flag, ids) ==
    LET initial_limit == IF rerank_flag THEN limit * 3 ELSE limit
        found == fuse_scores(cs, keyword_scores, initial_limit, domain, tenant_id, Zero, ids)
        ranked == IF rerank_flag /\ found # <<>> THEN rerank(query, found, limit) ELSE found
    IN Take(ranked, limit)

\* EnhancedRetriever.index_document, lines 557-574
PipeIndex ==
    /\ Indexing
    /\ nIndexed < MaxIndexOps
    /\ \E d \in PipeDocuments, doc_id \in DocIds :
         LET new == chunk_document(d.content, doc_id, d.domain, d.tenant_id)
             st == add_chunks(index, chunks, new, 1)
         IN /\ index' = st[1]
            /\ chunks' = st[2]
            /\ lastOp' = [op |-> "index", content |-> d.content, doc_id |-> doc_id,
                          domain |-> d.domain, tenant_id |-> d.tenant_id,
                          count |-> Len(new)]
    /\ nIndexed' = nIndexed + 1
    /\ UNCHANGED <<results, use_semantic, adder>>

\* EnhancedRetriever.search, lines 576-611; `after` records the call before
\* it and `ids` the order in which the retriever iterated its candidate set
PipeSearch ==
    /\ Indexing
    /\ \E query \in PipeQueries :
         \E keyword_scores \in {keyword_search(index, chunks, query)} :
            \E ids \in Perms(DOMAIN keyword_scores) :
              \E limit \in Limits, f \in Filters, rerank_flag \in BOOLEAN :
                /\ results' = pipeline_search(chunks, keyword_scores, query, limit,
                                              f[1], f[2], rerank_flag, ids)
                /\ lastOp' = [op |-> "pipeline_search", query |-> query, limit |-> limit,
                              domain |-> f[1], tenant_id |-> f[2], rerank |-> rerank_flag,
                              after |-> lastOp, indexed |-> nIndexed, ids |-> ids]
    /\ UNCHANGED <<index, chunks, nIndexed, use_semantic, adder>>

NextPipe ==
    \/ (PipeIndex /\ UNCHANGED <<coordVars, synVars>>)
    \/ (PipeSearch /\ UNCHANGED <<coordVars, synVars>>)

InitPipe == CoordIdle /\ RetrInit /\ use_semantic = FALSE /\ SynIdle

SpecPipe == InitPipe /\ [][NextPipe]_vars

(***************************************************************************)
(* index_document in one thread and search in another.  The code takes no  *)
(* lock: the thread inside add_chunks (lines 317-340) can be interrupted   *)
(* after each of its writes, `self._chunks[chunk_id] = chunk` and every    *)
(* `self._index[token].append(...)`.  The search reads _index and _chunks  *)
(* as they are at one instant.                                             *)
(***************************************************************************)
\* the keys of token_counts in insertion order, lines 329-332
RECURSIVE PostTokens(_, _)
PostTokens(tokens, seen) ==
    IF tokens = <<>> THEN <<>>
    ELSE IF Len(Head(tokens)) > 2 /\ Head(tokens) \notin seen
         THEN <<Head(tokens)>> \o PostTokens(Tail(tokens), seen \cup {Head(tokens)})
         ELSE PostTokens(Tail(tokens), seen)

\* the thread enters index_document: chunk_document, then add_chunks begins
AddBegin ==
    /\ Indexing
    /\ adder.pc = "idle"
    /\ nIndexed < MaxIndexOps
    /\ \E d \in PipeDocuments, doc_id \in DocIds :
         LET new == chunk_document(d.content, doc_id, d.domain, d.tenant_id)
         IN /\ adder' = [pc |-> "store", new |-> new, k |-> 1, todo |-> <<>>,
                         before |-> <<index, chunks>>]
            /\ lastOp' = [op |-> "index", content |-> d.content, doc_id |-> doc_id,
                          domain |-> d.domain, tenant_id |-> d.tenant_id,
                          count |-> Len(new)]
    /\ nIndexed' = nIndexed + 1
    /\ UNCHANGED <<index, chunks, results, use_semantic>>

\* line 320, or the end of the loop of line 319
AddStore ==
    /\ Indexing
    /\ adder.pc = "store"
    /\ IF adder.k > Len(adder.new)
       THEN /\ adder' = [pc |-> "idle"]
            /\ UNCHANGED chunks
       ELSE /\ chunks' = PutChunk(chunks, adder.new[adder.k])
            /\ adder' = [adder EXCEPT !.pc = "post",
                                      !.todo = PostTokens(Tokens(adder.new[adder.k]), {})]
    /\ UNCHANGED <<index, nIndexed, lastOp, results, use_semantic>>

\* one turn of the loop of lines 336-340, or its end
AddPost ==
    /\ Indexing
    /\ adder.pc = "post"
    /\ IF adder.todo = <<>>
       THEN /\ adder' = [adder EXCEPT !.pc = "store", !.k = adder.k + 1]
            /\ UNCHANGED index
       ELSE LET chunk == adder.new[adder.k]
                tokens == Tokens(chunk)
                token == Head(adder.todo)
                total_tokens == IF Len(tokens) = 0 THEN 1 ELSE Len(tokens)
            IN /\ index' = [index EXCEPT ![token] =
                               Append(@, <<chunk.chunk_id, R(Count(tokens, token), total_tokens)>>)]
               /\ adder' = [adder EXCEPT !.todo = Tail(adder.todo)]
    /\ UNCHANGED <<chunks, nIndexed, lastOp, results, use_semantic>>

\* HybridRetriever.search in the other thread
ConcSearch ==
    /\ Indexing
    /\ \E query \in PipeQueries :
         \E keyword_scores \in {keyword_search(index, chunks, query)} :
            \E ids \in Perms(DOMAIN keyword_scores) :
              \E limit \in Limits :
                /\ results' = fuse_scores(chunks, keyword_scores, limit, None, None,
                                          Zero, ids)
                /\ lastOp' = [op |-> "conc_search", query |-> query, limit |-> limit,
                              ids |-> ids]
    /\ UNCHANGED <<index, chunks, nIndexed, use_semantic, adder>>

NextConc ==
    \/ (AddBegin /\ UNCHANGED <<coordVars, synVars>>)
    \/ (AddStore /\ UNCHANGED <<coordVars, synVars>>)
    \/ (AddPost /\ UNCHANGED <<coordVars, synVars>>)
    \/ (ConcSearch /\ UNCHANGED <<coordVars, synVars>>)

InitConc == CoordIdle /\ RetrInit /\ SynIdle

SpecConc == InitConc /\ [][NextConc]_vars

(***************************************************************************)
(* Claims about the retriever and the reranker, checked under SpecRetr.    *)
(***************************************************************************)
Searched == lastOp.op = "search"

ResultIds(rs) == [i \in 1..Len(rs) |-> rs[i].chunk.chunk_id]

\* C5 as stated: a search with a domain filter returns only chunks whose
\* domain equals the filter (case-insensitively), and a search with a
\* tenant_id filter only chunks whose tenant_id equals the filter.
C5_FilterOnlyEqual ==
    Searched =>
        \A i \in 1..Len(results) :
            /\ lastOp.domain # None
                  => Upper(results[i].chunk.domain) = Upper(lastOp.domain)
            /\ lastOp.tenant_id # None
                  => results[i].chunk.tenant_id = lastOp.tenant_id

\* C5 amended: a search with a domain filter returns only chunks whose domain
\* is unset or equals the filter (case-insensitively), and a search with a
\* tenant_id filter only chunks whose tenant_id is unset or equals the filter:
\* no chunk tagged with another domain or tenant is in the result.
C5_FilterExcludesOtherTagged ==
    Searched =>
        \A i \in 1..Len(results) :
            /\ lastOp.domain # None
                  => \/ results[i].chunk.domain = None
                     \/ Upper(results[i].chunk.domain) = Upper(lastOp.domain)
            /\ lastOp.tenant_id # None
                  => \/ results[i].chunk.tenant_id = None
                     \/ results[i].chunk.tenant_id = lastOp.tenant_id

\* a filtered search that returned a chunk of the requested domain or tenant
\* while a chunk of another domain or tenant matched the query
C5_Witness ==
    /\ Searched
    /\ \/ lastOp.domain = "airtime" /\ \E i \in 1..Len(results) : results[i].chunk.domain = "AIRTIME"
       \/ lastOp.tenant_id = "t1" /\ \E i \in 1..Len(results) : results[i].chunk.tenant_id = "t1"
    /\ \E id \in DOMAIN keyword_search(index, chunks, lastOp.query) :
          chunks[id].domain = "power" /\ chunks[id].tenant_id = "t2"

\* C6: after index_document, the retriever holds exactly the chunks of this
\* call for the doc_id, and every posting of a chunk of the doc_id is for a
\* term of the chunk's present content, once per term.
C6_ReindexReplaces ==
    lastOp.op = "index" =>
        /\ {id \in DOMAIN chunks : id[1] = lastOp.doc_id}
              = {generate_chunk_id(lastOp.doc_id, i) : i \in 0..(lastOp.count - 1)}
        /\ \A t \in DOMAIN index : \A j \in 1..Len(index[t]) :
              index[t][j][1][1] = lastOp.doc_id
                 => /\ index[t][j][1] \in DOMAIN chunks
                    /\ t \in Range(Tokens(chunks[index[t][j][1]]))
                    /\ \A k \in 1..Len(index[t]) : index[t][k][1] = index[t][j][1] => k = j

\* C7: repeating an index_document call with the same content and doc_id
\* leaves the chunk ids as they are and leaves the scores of every query as
\* they are.
C7_ReindexIdempotent ==
    [][(lastOp.op = "index" /\ lastOp' = lastOp /\ nIndexed' = nIndexed + 1)
          => /\ DOMAIN chunks' = DOMAIN chunks
             /\ \A q \in Queries :
                   keyword_search(index', chunks', q) = keyword_search(index, chunks, q)]_vars

MaxKeywordScore == RMaxOf({results[i].keyword_score : i \in 1..Len(results)})

\* C8 as stated: the maximum keyword_score of a non-empty search result is 1.0.
C8_MaxKeywordScoreIsOne ==
    (Searched /\ results # <<>>) => MaxKeywordScore = One

\* a chunk with the highest keyword score of the query passes the filters
TopPassesFilters ==
    \E id \in DOMAIN keyword_search(index, chunks, lastOp.query) :
        /\ keyword_search(index, chunks, lastOp.query)[id] = One
        /\ PassesFilters(chunks[id], lastOp.domain, lastOp.tenant_id)

\* C8 amended: the maximum keyword_score of a non-empty search result is 1.0
\* when a chunk with the highest keyword score of the query passes the domain
\* and tenant_id filters (as it does when no filter is given), and is below
\* 1.0 when the filters exclude every such chunk.
C8_MaxKeywordScoreOfUnfiltered ==
    (Searched /\ results # <<>>) =>
        IF TopPassesFilters THEN MaxKeywordScore = One
                            ELSE RLt(MaxKeywordScore, One)

\* an unfiltered search that returned two results with different scores
C8_Witness ==
    /\ Searched
    /\ lastOp.domain = None /\ lastOp.tenant_id = None
    /\ Len(results) = 2
    /\ RLt(results[2].keyword_score, results[1].keyword_score)

\* C9: rerank never introduces a candidate.  Without top_k the returned list
\* has the length of the given one and holds exactly its chunk_ids, each
\* once; with top_k it holds chunk_ids of the given list, each at most once;
\* an empty list is returned as it is.
C9_RerankNeverInvents ==
    lastOp.op = "rerank" =>
        LET given == ResultIds(lastOp.given)
            got == ResultIds(results)
        IN /\ Range(got) \subseteq Range(given)
           /\ \A i, j \in 1..Len(got) : got[i] = got[j] => i = j
           /\ lastOp.top_k = NoTopK => Len(got) = Len(given) /\ Range(got) = Range(given)
           /\ lastOp.top_k # NoTopK => Len(got) <= Len(given)
           /\ lastOp.given = <<>> => results = <<>>
           /\ \A i \in 1..Len(results) : \E j \in 1..Len(lastOp.given) :
                 results[i].chunk = lastOp.given[j].chunk

\* a rerank without top_k that changed the order of two candidates
C9_Witness ==
    /\ lastOp.op = "rerank"
    /\ lastOp.top_k = NoTopK
    /\ Len(results) = 2
    /\ ResultIds(results) # ResultIds(lastOp.given)
    /\ results[1].final_score # lastOp.given[2].final_score

(***************************************************************************)
(* MultiAgentCoordinator._detect_conflicts, lines 431-466.                 *)
(* The content of a finding is given as the fragments "<label>: <number>"  *)
(* the regular expression of line 444 finds in it, in order: the label as  *)
(* matched (group 1) and the number as its characters (group 2).  The      *)
(* numbers of the model are integers, for which the float comparison of    *)
(* line 459 agrees with the exact one.                                     *)
(***************************************************************************)
Chars105 == <<"1", "0", "5">>

Chars90 == <<"9", "0">>

CharsN1000 == <<"N", "1", ",", "0", "0", "0">>

Chars0 == <<"0">>

ContentPool ==
    {<<>>,
     <<[label |-> "price", number |-> Chars100]>>,
     <<[label |-> " Price", number |-> Chars200]>>,
     <<[label |-> "price", number |-> Chars105]>>,
     <<[label |-> "PRICE", number |-> Chars90]>>,
     <<[label |-> "fee", number |-> CharsN1000], [label |-> " price", number |-> Chars100]>>,
     <<[label |-> "price", number |-> Chars100], [label |-> " price", number |-> Chars200]>>,
     <<[label |-> "fee", number |-> Chars0]>>}

AgentNames == {"kb_agent", "pricing_agent"}

\* ResearchFinding.confidence, as fractions
Confidences == {Zero, R(1, 2), One}

\* ResearchFinding.sources of the findings of an agent
SourcesOf(a) == IF a = "kb_agent" THEN <<"doc1", "doc2">> ELSE <<"doc2">>

FindingPool ==
    {[source_agent |-> a, content |-> c, confidence |-> x, sources |-> SourcesOf(a)] :
        a \in AgentNames, c \in ContentPool, x \in Confidences}

MaxFindings == 2     \* findings handed to _synthesize: 0..MaxFindings

\* context.strip().lower()
NormalizeLabel(raw) ==
    CASE raw = " Price" -> "price"
      [] raw = " price" -> "price"
      [] OTHER -> Lower(raw)

DigitValue(c) ==
    CASE c = "0" -> 0 [] c = "1" -> 1 [] c = "2" -> 2 [] c = "3" -> 3 [] c = "4" -> 4
      [] c = "5" -> 5 [] c = "6" -> 6 [] c = "7" -> 7 [] c = "8" -> 8 [] c = "9" -> 9

\* float(number) after the replace calls of line 448 have removed the naira
\* sign (in no number of the model), 'N' and ','.
RECURSIVE ParseNumber(_, _)
ParseNumber(chars, acc) ==
    IF chars = <<>> THEN acc
    ELSE IF Head(chars) \in {"N", ","} THEN ParseNumber(Tail(chars), acc)
    ELSE ParseNumber(Tail(chars), 10 * acc + DigitValue(Head(chars)))

\* lines 442-453: the (key, agent, value) triples in the order they are found
RECURSIVE Extracted(_)
Extracted(fs) ==
    IF fs = <<>> THEN <<>>
    ELSE LET f == Head(fs)
         IN [i \in 1..Len(f.content) |->
                [key |-> NormalizeLabel(f.content[i].label),
                 agent |-> f.source_agent,
                 value |-> ParseNumber(f.content[i].number, 0)]]
            \o Extracted(Tail(fs))

RECURSIVE SelectKey(_, _)
SelectKey(triples, key) ==
    IF triples = <<>> THEN <<>>
    ELSE IF Head(triples).key = key
         THEN <<<<Head(triples).agent, Head(triples).value>>>> \o SelectKey(Tail(triples), key)
         ELSE SelectKey(Tail(triples), key)

\* the keys of numbers_by_agent, in insertion order
RECURSIVE KeysInOrder(_, _)
KeysInOrder(triples, seen) ==
    IF triples = <<>> THEN <<>>
    ELSE IF Head(triples).key \in seen THEN KeysInOrder(Tail(triples), seen)
    ELSE <<Head(triples).key>> \o KeysInOrder(Tail(triples), seen \cup {Head(triples).key})

\* SignificantDifference with >= in place of the > of line 459
SignificantDifferenceInclusive(nums) ==
    Max(nums) > 0 /\ ~RLt(R(Max(nums) - Min(nums), Max(nums)), R(1, 10))

\* line 459
SignificantDifference(nums) ==
    Max(nums) > 0 /\ RLt(R(1, 10), R(Max(nums) - Min(nums), Max(nums)))

\* lines 456-464
RECURSIVE ConflictsOf(_, _)
ConflictsOf(triples, keys) ==
    IF keys = <<>> THEN <<>>
    ELSE LET values == SelectKey(triples, Head(keys))
             nums == {values[i][2] : i \in 1..Len(values)}
             rest == ConflictsOf(triples, Tail(keys))
         IN IF Len(values) > 1 /\ SignificantDifference(nums)
            THEN <<[type |-> "numeric_conflict", context |-> Head(keys), values |-> values]>>
                 \o rest
            ELSE rest

detect_conflicts(fs) ==
    LET triples == Extracted(fs)
    IN ConflictsOf(triples, KeysInOrder(triples, {}))

(***************************************************************************)
(* The text of a finding's content.  Every content of ContentPool stands   *)
(* for one text, in which the regular expression of line 444 finds the     *)
(* fragments of the content.                                               *)
(***************************************************************************)
Text(content) ==
    CASE content = <<>> -> "No relevant information found."
      [] content = <<[label |-> "price", number |-> Chars100]>> -> "price: 100"
      [] content = <<[label |-> " Price", number |-> Chars200]>>
            -> "Updated tariff for all meters, Price: 200"
      [] content = <<[label |-> "price", number |-> Chars105]>>
            -> "price: 105. Quoted by the regional office today."
      [] content = <<[label |-> "PRICE", number |-> Chars90]>> -> "PRICE: 90"
      [] content = <<[label |-> "fee", number |-> CharsN1000],
                     [label |-> " price", number |-> Chars100]>>
            -> "fee: N1,000. Standard tariff for all, price: 100"
      [] content = <<[label |-> "price", number |-> Chars100],
                     [label |-> " price", number |-> Chars200]>>
            -> "price: 100. Updated tariff for all meters, price: 200"
      [] content = <<[label |-> "fee", number |-> Chars0]>>
            -> "fee: 0. Quoted by the regional office today."

\* [s.strip() for s in content.split('.')] on the text of the content
Sentences(content) ==
    CASE content = <<>> -> <<"No relevant information found", "">>
      [] content = <<[label |-> "price", number |-> Chars100]>> -> <<"price: 100">>
      [] content = <<[label |-> " Price", number |-> Chars200]>>
            -> <<"Updated tariff for all meters, Price: 200">>
      [] content = <<[label |-> "price", number |-> Chars105]>>
            -> <<"price: 105", "Quoted by the regional office today", "">>
      [] content = <<[label |-> "PRICE", number |-> Chars90]>> -> <<"PRICE: 90">>
      [] content = <<[label |-> "fee", number |-> CharsN1000],
                     [label |-> " price", number |-> Chars100]>>
            -> <<"fee: N1,000", "Standard tariff for all, price: 100">>
      [] content = <<[label |-> "price", number |-> Chars100],
                     [label |-> " price", number |-> Chars200]>>
            -> <<"price: 100", "Updated tariff for all meters, price: 200">>
      [] content = <<[label |-> "fee", number |-> Chars0]>>
            -> <<"fee: 0", "Quoted by the regional office today", "">>

\* content[:200]: every text of the model is shorter than 200 characters
Prefix200(content) == Text(content)

(***************************************************************************)
(* _extract_key_points, lines 468-486                                      *)
(***************************************************************************)
\* lines 481-485: the first sentence longer than 20 characters that is not
\* a key point yet, or None
RECURSIVE FirstSubstantive(_, _)
FirstSubstantive(sentences, points) ==
    IF sentences = <<>> THEN None
    ELSE IF Len(Head(sentences)) > 20 /\ Head(sentences) \notin Range(points)
         THEN Head(sentences)
         ELSE FirstSubstantive(Tail(sentences), points)

RECURSIVE KeyPointsFrom(_, _)
KeyPointsFrom(fs, points) ==
    IF fs = <<>> THEN points
    ELSE LET sentence == FirstSubstantive(Sentences(Head(fs).content), points)
         IN KeyPointsFrom(Tail(fs),
                          IF sentence = None THEN points ELSE Append(points, sentence))

extract_key_points(fs) == Take(KeyPointsFrom(fs, <<>>), 5)

(***************************************************************************)
(* _generate_summary, lines 488-510.  The summary string is given by the   *)
(* values its format string is filled with.                                *)
(***************************************************************************)
\* [f for f in findings if f.confidence > 0.5]
RECURSIVE HighConfidence(_)
HighConfidence(fs) ==
    IF fs = <<>> THEN <<>>
    ELSE IF RLt(R(1, 2), Head(fs).confidence)
         THEN <<Head(fs)>> \o HighConfidence(Tail(fs))
         ELSE HighConfidence(Tail(fs))

\* max(high_confidence, key=lambda f: f.confidence): the first maximum
Best(high) ==
    high[Min({i \in 1..Len(high) :
                \A j \in 1..Len(high) : ~RLt(high[i].confidence, high[j].confidence)})]

generate_summary(fs) ==
    LET high_confidence == HighConfidence(fs)
    IN IF high_confidence # <<>>
       THEN [kind |-> "Based on", count |-> Len(fs),
             text |-> Prefix200(Best(high_confidence).content),
             corroborated |-> Len(high_confidence) - 1]
       ELSE IF fs # <<>>
            THEN [kind |-> "Limited information found", count |-> 0,
                  text |-> Prefix200(fs[1].content), corroborated |-> 0]
            ELSE [kind |-> "No relevant information found for", count |-> 0,
                  text |-> None, corroborated |-> 0]

(***************************************************************************)
(* _synthesize, lines 383-429                                              *)
(***************************************************************************)
RSub(x, y) == RAdd(x, R(0 - y[1], y[2]))

\* lines 399-402: all_sources
RECURSIVE AllSources(_)
AllSources(fs) == IF fs = <<>> THEN <<>> ELSE Head(fs).sources \o AllSources(Tail(fs))

\* lines 405-406
avg_confidence(fs) == RDiv(RSum([i \in 1..Len(fs) |-> fs[i].confidence]), R(Len(fs), 1))

\* variance with the divisor len(confidences) - 1 of the sample variance
varianceSample(fs) ==
    RDiv(RSum([i \in 1..Len(fs) |->
                 RMul(RSub(fs[i].confidence, avg_confidence(fs)),
                      RSub(fs[i].confidence, avg_confidence(fs)))]),
         R(Len(fs) - 1, 1))

\* line 409
variance(fs) ==
    RDiv(RSum([i \in 1..Len(fs) |->
                 RMul(RSub(fs[i].confidence, avg_confidence(fs)),
                      RSub(fs[i].confidence, avg_confidence(fs)))]),
         R(Len(fs), 1))

\* line 410
consensus(fs) == RMul(avg_confidence(fs), RSub(One, RMin(One, variance(fs))))

\* synthesize without the early return of lines 389-397
synthesizeNoEmptyCase(fs, unique_sources) ==
    [summary |-> generate_summary(fs),
     key_points |-> extract_key_points(fs),
     consensus_confidence |-> IF fs = <<>> THEN Zero ELSE consensus(fs),
     conflicts |-> detect_conflicts(fs),
     sources |-> unique_sources]

\* the SynthesizedResult; unique_sources is list(set(all_sources)) in the
\* order the set is iterated
synthesize(fs, unique_sources) ==
    IF fs = <<>>
    THEN [summary |-> [kind |-> "No research findings available", count |-> 0,
                       text |-> None, corroborated |-> 0],
          key_points |-> <<>>,
          consensus_confidence |-> Zero,
          conflicts |-> <<>>,
          sources |-> <<>>]
    ELSE [summary |-> generate_summary(fs),
          key_points |-> extract_key_points(fs),
          consensus_confidence |-> consensus(fs),
          conflicts |-> detect_conflicts(fs),
          sources |-> unique_sources]

InitSyn ==
    /\ CoordIdle
    /\ RetrIdle
    /\ synPc = "call"
    /\ synFindings \in SeqsUpTo(FindingPool, MaxFindings)
    /\ conflicts = <<>>
    /\ summary = None
    /\ key_points = <<>>
    /\ consensus_confidence = Zero
    /\ sources = <<>>

\* _synthesize, lines 383-429
Synthesize ==
    /\ synPc = "call"
    /\ \E unique_sources \in Perms(Range(AllSources(synFindings))) :
         \E result \in {synthesize(synFindings, unique_sources)} :
            /\ conflicts' = result.conflicts
            /\ summary' = result.summary
            /\ key_points' = result.key_points
            /\ consensus_confidence' = result.consensus_confidence
            /\ sources' = result.sources
    /\ synPc' = "done"
    /\ UNCHANGED synFindings

NextSyn == Synthesize /\ UNCHANGED <<coordVars, retrVars>>

SpecSyn == InitSyn /\ [][NextSyn]_vars

(***************************************************************************)
(* research(), line 219: return self._synthesize(query, findings).         *)
(* The ResearchFinding a worker returns: the first registered agent's has  *)
(* a low confidence and two sources, every other agent's a high one.       *)
(***************************************************************************)
WorkerFinding(f) ==
    IF f.agent = 1
    THEN [source_agent |-> "kb_agent",
          content |-> WorkerContent(f.agent),
          confidence |-> R(1, 2), sources |-> SourcesOf("kb_agent")]
    ELSE [source_agent |-> "pricing_agent",
          content |-> WorkerContent(f.agent),
          confidence |-> One, sources |-> SourcesOf("pricing_agent")]

\* the step that ends research() by returning also makes the result
Synthesized ==
    IF outcome = "none" /\ outcome' = "returned"
    THEN /\ synPc' = "done"
         /\ synFindings' = [i \in 1..Len(findings') |-> WorkerFinding(findings'[i])]
         /\ \E unique_sources \in Perms(Range(AllSources(synFindings'))) :
              \E result \in {synthesize(synFindings', unique_sources)} :
                 /\ conflicts' = result.conflicts
                 /\ summary' = result.summary
                 /\ key_points' = result.key_points
                 /\ consensus_confidence' = result.consensus_confidence
                 /\ sources' = result.sources
    ELSE UNCHANGED synVars

Init == CoordInit /\ RetrIdle /\ SynIdle

Next ==
    \/ (Research /\ Synthesized /\ UNCHANGED retrVars)
    \/ (Submit /\ Synthesized /\ UNCHANGED retrVars)
    \/ (BeginCollect /\ Synthesized /\ UNCHANGED retrVars)
    \/ (CollectYield /\ Synthesized /\ UNCHANGED retrVars)
    \/ (CollectWait /\ Synthesized /\ UNCHANGED retrVars)
    \/ (CollectEnd /\ Synthesized /\ UNCHANGED retrVars)
    \/ (UnitStart /\ Synthesized /\ UNCHANGED retrVars)
    \/ (UnitReturn /\ Synthesized /\ UNCHANGED retrVars)
    \/ (UnitRaise /\ Synthesized /\ UNCHANGED retrVars)
    \/ (SeqTask /\ Synthesized /\ UNCHANGED retrVars)
    \/ (SeqScan /\ Synthesized /\ UNCHANGED retrVars)
    \/ (SeqInlineReturn /\ Synthesized /\ UNCHANGED retrVars)
    \/ (SeqInlineRaise /\ Synthesized /\ UNCHANGED retrVars)
    \/ (LeadReturn /\ Synthesized /\ UNCHANGED retrVars)
    \/ (LeadRaise /\ Synthesized /\ UNCHANGED retrVars)
    \/ (Tick /\ Synthesized /\ UNCHANGED retrVars)

Spec == Init /\ [][Next]_vars

(***************************************************************************)
(* The calls of a coordinator built with strategy=SEQUENTIAL: the steps of *)
(* research(), _execute_sequential and the clock.                          *)
(***************************************************************************)
InitSeq == Init /\ strategy = "sequential"

NextSeq ==
    \/ (Research /\ Synthesized /\ UNCHANGED retrVars)
    \/ (SeqTask /\ Synthesized /\ UNCHANGED retrVars)
    \/ (SeqScan /\ Synthesized /\ UNCHANGED retrVars)
    \/ (SeqInlineReturn /\ Synthesized /\ UNCHANGED retrVars)
    \/ (SeqInlineRaise /\ Synthesized /\ UNCHANGED retrVars)
    \/ (Tick /\ Synthesized /\ UNCHANGED retrVars)

SpecSeq == InitSeq /\ [][NextSeq]_vars

(***************************************************************************)
(* Claims about the synthesis, checked under SpecSyn.                      *)
(***************************************************************************)
\* the (agent, value) pairs extracted for a label, in order
ValuesFor(key) == SelectKey(Extracted(synFindings), key)

Labels == {Extracted(synFindings)[i].key : i \in 1..Len(Extracted(synFindings))}

NumsFor(key) == {ValuesFor(key)[i][2] : i \in 1..Len(ValuesFor(key))}

\* (max - min) / max > 0.1, by cross-multiplication
ExceedsTenth(nums) == Max(nums) > 0 /\ 10 * (Max(nums) - Min(nums)) > Max(nums)

\* C10: the result has a numeric_conflict for a label exactly when two or more
\* values were extracted for it and (max - min) / max > 0.1; there is one
\* entry per such label, and it lists every contributing (agent, value) pair.
C10_ConflictExactlyAboveTenth ==
    synPc = "done" =>
        /\ \A key \in Labels :
              LET entries == {i \in 1..Len(conflicts) : conflicts[i].context = key}
              IN IF Len(ValuesFor(key)) >= 2 /\ ExceedsTenth(NumsFor(key))
                 THEN /\ Cardinality(entries) = 1
                      /\ \A i \in entries : conflicts[i].values = ValuesFor(key)
                 ELSE entries = {}
        /\ \A i \in 1..Len(conflicts) :
              conflicts[i].context \in Labels /\ conflicts[i].type = "numeric_conflict"

\* 100 against 200 from two findings: one conflict with both pairs
C10_Witness ==
    /\ synPc = "done"
    /\ Len(synFindings) = 2
    /\ Len(conflicts) = 1
    /\ conflicts[1].context = "price"
    /\ {conflicts[1].values[i][2] : i \in 1..Len(conflicts[1].values)} = {100, 200}
    /\ Len(conflicts[1].values) = 2

\* 100 against 90 from two findings: no conflict
C10_WitnessBoundary ==
    /\ synPc = "done"
    /\ NumsFor("price") = {100, 90}
    /\ conflicts = <<>>

\* the findings list in another order
Reorder(fs, p) == [i \in 1..Len(fs) |-> fs[p[i]]]

\* C11: synthesize is order-independent: every ordering of the findings
\* gives the same summary, key_points, consensus_confidence and conflicts,
\* and the same set of sources.
C11_OrderIndependent ==
    synPc = "done" =>
        \A p \in Perms(DOMAIN synFindings) :
            LET other == synthesize(Reorder(synFindings, p), sources)
            IN /\ other.summary = summary
               /\ other.key_points = key_points
               /\ other.consensus_confidence = consensus_confidence
               /\ other.conflicts = conflicts
               /\ Range(AllSources(Reorder(synFindings, p))) = Range(sources)

(***************************************************************************)
(* Claims about the Sequential strategy, checked under SpecSeq.            *)
(***************************************************************************)
\* C12: in Sequential strategy the tasks are taken in strictly descending
\* priority order, which is the order of the focus areas given: while the
\* coordinator is at a task, no worker has been started on any later task
\* and no worker is running on any earlier one.
C12_SequentialPriorityOrder ==
    (strategy = "sequential" /\ pc \in {"seq_loop", "seq_scan", "seq_run", "done"}) =>
        /\ Len(order) = Len(tasks)
        /\ \A i, j \in 1..Len(order) :
              i < j => tasks[order[i]].priority > tasks[order[j]].priority
        /\ \A i \in 1..Len(order) :
              order[i] = i /\ (focus_areas # <<>> => tasks[i].focus_area = focus_areas[i])
        /\ \A k \in 1..Len(order) :
              /\ k > ti => tasks[order[k]].status = "pending"
              /\ k < ti => tasks[order[k]].status # "running"
              /\ tasks[order[k]].status = "running" => (k = ti /\ pc = "seq_run")

\* a worker runs on the second of two tasks after the first was completed
C12_Witness ==
    /\ strategy = "sequential"
    /\ Len(tasks) = 2
    /\ pc = "seq_run"
    /\ ti = 2
    /\ tasks[order[1]].status = "completed"
    /\ tasks[order[1]].priority = 2
    /\ tasks[order[2]].status = "running"

\* C13: in Sequential strategy, when the coordinator comes to a task after
\* the elapsed time has exceeded the deadline, it marks the task timeout and
\* invokes no worker for it; the tasks finished earlier keep their status
\* and the findings stay as they are; the call ends by returning them.
C13_SequentialDeadline ==
    [][(strategy = "sequential" /\ pc = "seq_loop" /\ now - start > timeout) =>
          /\ pc' \in {"seq_loop", "done"}
          /\ findings' = findings
          /\ pc' = "done" => outcome' = "returned"
          /\ \A t \in DOMAIN tasks :
                /\ tasks'[t].status # "running"
                /\ tasks[t].status # "pending" => tasks'[t] = tasks[t]
                /\ tasks'[t].status # tasks[t].status =>
                      (t = order[ti] /\ tasks'[t].status = "timeout")
          /\ (pc' = pc /\ now' = now /\ ti <= Len(order)) =>
                (tasks'[order[ti]].status = "timeout" /\ ti' = ti + 1)]_vars

\* the call returned the finding of the first task; the second task, reached
\* after the deadline, is marked timeout
C13_Witness ==
    /\ strategy = "sequential"
    /\ outcome = "returned"
    /\ Len(tasks) = 2
    /\ tasks[order[1]].status = "completed"
    /\ tasks[order[2]].status = "timeout"
    /\ Len(findings) = 1

(***************************************************************************)
(* Claims about the chunker, checked under SpecRetr.                       *)
(***************************************************************************)
\* the list the chunk_document call of the last index_document returned
LastChunks ==
    chunk_document(lastOp.content, lastOp.doc_id, lastOp.domain, lastOp.tenant_id)

\* C14: the chunks chunk_document returns have the chunk_index values
\* 0..n-1 in list order and total_chunks = n, n being their number, also when
\* sections shorter than min_chunk_size are dropped between kept sections.
C14_ChunkIndexContiguous ==
    lastOp.op = "index" =>
        /\ Len(LastChunks) = lastOp.count
        /\ \A i \in 1..Len(LastChunks) :
              /\ LastChunks[i].chunk_index = i - 1
              /\ LastChunks[i].total_chunks = Len(LastChunks)
              /\ chunks[generate_chunk_id(lastOp.doc_id, i - 1)] = LastChunks[i]

\* a document whose short middle section was dropped, in two chunks, or one
\* whose only section was cut into two chunks
C14_Witness ==
    /\ lastOp.op = "index"
    /\ \/ lastOp.content = DocBoth /\ lastOp.count = 2
             /\ LastChunks[2].section_title = "Airtime"
       \/ lastOp.content = DocLong /\ lastOp.count = 2

(***************************************************************************)
(* Claims about research() and its result, checked under Spec.             *)
(***************************************************************************)
\* no worker is registered, or (Parallel, Sequential) no registered worker
\* can handle any task of the call
NoUnitDispatched ==
    \/ agents = <<>>
    \/ /\ strategy \in {"parallel", "sequential"}
       /\ \A t \in DOMAIN tasks, a \in DOMAIN agents : ~can_handle(a, tasks[t].focus_area)

\* C15: when no unit is dispatched, research ends without error by returning
\* synthesize(query, []): consensus_confidence 0.0, no findings, sources,
\* conflicts or key_points, and the summary that nothing was found.
C15_EmptySynthesis ==
    (outcome # "none" /\ NoUnitDispatched) =>
        /\ outcome = "returned"
        /\ units = <<>>
        /\ findings = <<>>
        /\ synPc = "done"
        /\ synFindings = <<>>
        /\ consensus_confidence = Zero
        /\ key_points = <<>>
        /\ conflicts = <<>>
        /\ sources = <<>>
        /\ summary.kind = "No research findings available"
        /\ Len(summary.kind) > 0

\* a call with registered workers none of which can handle the one task
C15_Witness ==
    /\ outcome = "returned"
    /\ agents # <<>>
    /\ Len(tasks) = 1
    /\ NoUnitDispatched
    /\ synPc = "done"

(***************************************************************************)
(* Claims about the consensus confidence, checked under SpecSyn.           *)
(***************************************************************************)
SynConfidences == [i \in 1..Len(synFindings) |-> synFindings[i].confidence]

Mean == RDiv(RSum(SynConfidences), R(Len(synFindings), 1))

\* the population variance, as the mean of the squares less the squared mean
PopulationVariance ==
    RSub(RDiv(RSum([i \in 1..Len(synFindings) |->
                      RMul(SynConfidences[i], SynConfidences[i])]),
              R(Len(synFindings), 1)),
         RMul(Mean, Mean))

ExampleSearched ==
    /\ lastOp.op = "pipeline_search"
    /\ lastOp.indexed = 1
    /\ lastOp.after.op = "index"
    /\ lastOp.after.content = DocExample
    /\ lastOp.query = <<"price">>
    /\ lastOp.limit = 1
    /\ lastOp.domain = None /\ lastOp.tenant_id = None
    /\ lastOp.rerank

C17_ExampleReturnsPricing ==
    ExampleSearched =>
        /\ Len(results) = 1
        /\ results[1].chunk.section_title = "Pricing"

\* C18 as stated: in Sequential strategy a task is run by at most one
\* worker, the first registered worker whose can_handle is true for it: every
\* inline run starts on a task no worker has run, with that worker, and a
\* task a worker failed is never run again.
C18_SequentialOneWorker ==
    [][(strategy = "sequential" /\ pc = "seq_scan" /\ pc' = "seq_run") =>
          /\ tasks[order[ti]].status = "pending"
          /\ ai' = FirstEligible(order[ti], 1)]_vars

\* C19 as stated: in Hierarchical strategy the lead (first registered) worker
\* runs once per research call: the second phase submits no work item for the
\* lead, and the lead contributes at most one finding to the result.
LeadFindings == {i \in DOMAIN findings : findings[i].agent = 1}

C19_LeadRunsOnce ==
    strategy = "hierarchical" =>
        /\ \A u \in Futures : units[u].agent # 1
        /\ Cardinality(LeadFindings) <= 1

\* C20 as stated: in Hierarchical strategy the deadline given to the
\* sub-agent phase is never more than what remains of the overall deadline
\* when the lead phase ends, clamped at zero.
Remaining == IF timeout - (now - start) > 0 THEN timeout - (now - start) ELSE 0

C20_SubPhaseWithinRemaining ==
    [][(strategy = "hierarchical" /\ pc = "lead_run" /\ pc' = "submit") =>
          ptimeout' <= Remaining]_vars

UnitsOf(t, a) == {u \in Futures : units[u].task = t /\ units[u].agent = a}

OnePerCapablePair ==
    \A t \in DOMAIN tasks : \A a \in DOMAIN agents :
       Cardinality(UnitsOf(t, a)) = IF can_handle(a, tasks[t].focus_area) THEN 1 ELSE 0

\* as_completed takes a future only while the deadline has not passed: the
\* units it has taken finished in time.  start = 0: as_completed began when
\* the call was made, so its deadline is the deadline of the call.
TakenInTime == IF strategy = "parallel" /\ start = 0 THEN batch \cup yielded ELSE {}

Contributes(u) ==
    /\ outcome = "returned"
    /\ \E i \in DOMAIN findings :
          findings[i] = [agent |-> units[u].agent, task |-> units[u].task]

C22_ParallelUnits ==
    /\ []((strategy = "parallel" /\ pc \in {"collect", "done"}) => OnePerCapablePair)
    /\ [][\A t \in DOMAIN tasks :
            (strategy = "parallel" /\ t \in DOMAIN tasks'
               /\ tasks[t].status # "failed" /\ tasks'[t].status = "failed") =>
                  \E u \in batch : units[u].task = t /\ units[u].state = "raised"]_vars
    /\ [](outcome # "none" =>
            \A u \in TakenInTime : units[u].state = "returned" => Contributes(u))

\* C23 as stated: a search that runs concurrently with add_chunks never
\* observes a chunk that is stored while its postings are missing or only
\* partly added, and it returns the result of some serial order of the
\* search and the insertions.
FullyPosted(id) ==
    \A t \in Range(PostTokens(Tokens(chunks[id]), {})) :
       \E j \in 1..Len(index[t]) : index[t][j][1] = id

ConcSearched == lastOp.op = "conc_search"

\* what the search returns on the state <<_index, _chunks>> st
SearchOn(st) ==
    LET kw == keyword_search(st[1], st[2], lastOp.query)
    IN {fuse_scores(st[2], kw, lastOp.limit, None, None, Zero, ids) :
          ids \in Perms(DOMAIN kw)}

\* the states between two insertions of the running add_chunks call
SerialStates ==
    IF adder.pc = "idle"
    THEN {<<index, chunks>>}
    ELSE {add_chunks(adder.before[1], adder.before[2], SubSeq(adder.new, 1, n), 1) :
            n \in 0..Len(adder.new)}

C23_SearchSeesAtomicInsertions ==
    ConcSearched =>
        /\ \A id \in DOMAIN chunks : FullyPosted(id)
        /\ \E st \in SerialStates : results \in SearchOn(st)

\* C24 as stated: HybridRetriever.search returns its results in
\* non-increasing final_score order, and results of equal final_score in
\* candidate discovery order, the order in which the keyword scan of lines
\* 420-430 first reached them.
RECURSIVE FirstReached(_, _, _, _)
FirstReached(query_tokens, i, j, acc) ==
    IF i > Len(query_tokens) THEN acc
    ELSE IF ~InIndex(index, query_tokens[i]) \/ j > Len(index[query_tokens[i]])
         THEN FirstReached(query_tokens, i + 1, 1, acc)
         ELSE LET id == index[query_tokens[i]][j][1]
              IN FirstReached(query_tokens, i, j + 1,
                              IF id \in Range(acc) THEN acc ELSE Append(acc, id))

Position(seq, x) == CHOOSE k \in 1..Len(seq) : seq[k] = x

C24_SortedTiesInDiscoveryOrder ==
    Searched =>
        LET discovery == FirstReached(LowerSeq(lastOp.query), 1, 1, <<>>)
        IN \A i \in 1..Len(results) : \A j \in 1..Len(results) :
              i < j =>
                 /\ ~RLt(results[i].final_score, results[j].final_score)
                 /\ results[i].final_score = results[j].final_score =>
                       Position(discovery, results[i].chunk.chunk_id)
                          < Position(discovery, results[j].chunk.chunk_id)

\* C25 as stated: every chunk that holds more than one paragraph has a total
\* paragraph length of at most chunk_size, a paragraph carried forward as
\* overlap included, and no paragraph of a kept section is left out of the
\* chunks.
KeptSections == {k \in 1..Len(lastOp.content) :
                   TextLen(lastOp.content[k].paras) >= min_chunk_size}

C25_ChunkWithinBudget ==
    lastOp.op = "index" =>
        /\ \A i \in 1..lastOp.count :
              LET chunk == chunks[generate_chunk_id(lastOp.doc_id, i - 1)]
              IN Len(chunk.content) > 1 => SumParaLen(chunk.content) <= chunk_size
        /\ \A k \in KeptSections : \A p \in Range(lastOp.content[k].paras) :
              \E i \in 1..lastOp.count :
                 LET chunk == chunks[generate_chunk_id(lastOp.doc_id, i - 1)]
                 IN /\ chunk.section_title = lastOp.content[k].title
                    /\ p \in Range(chunk.content)

\* C26: with reranking, pipeline search(query, limit) asks the retriever for
\* 3 x limit candidates and returns at most limit results, each drawn from
\* those candidates, with final_score 0.3 * prior final_score + 0.7 *
\* rerank_score and in non-increasing order of it, leaving out no candidate
\* that scores higher; without reranking it returns the retriever's first
\* limit results in the retriever's order.
PipeSearched == lastOp.op = "pipeline_search"

Candidates(n) ==
    fuse_scores(chunks, keyword_search(index, chunks, lastOp.query), n,
                lastOp.domain, lastOp.tenant_id, Zero, lastOp.ids)

Fused(c) ==
    RAdd(RMul(R(3, 10), c.final_score),
         RMul(R(7, 10), score_pair(lastOp.query, c.chunk.content)))

C26_PipelineOverfetch ==
    PipeSearched =>
        IF lastOp.rerank
        THEN LET cands == Candidates(3 * lastOp.limit)
             IN /\ Len(results) = Min({lastOp.limit, Len(cands)})
                /\ \A i \in 1..Len(results) :
                      \E k \in 1..Len(cands) :
                         /\ results[i].chunk = cands[k].chunk
                         /\ results[i].final_score = Fused(cands[k])
                /\ \A i \in 1..Len(results) : \A j \in 1..Len(results) :
                      i < j => ~RLt(results[i].final_score, results[j].final_score)
                /\ \A k \in 1..Len(cands) :
                      (\A i \in 1..Len(results) : results[i].chunk # cands[k].chunk) =>
                         \A i \in 1..Len(results) :
                            ~RLt(results[i].final_score, Fused(cands[k]))
        ELSE results = Candidates(lastOp.limit)

\* limit 1 with reranking: the result is not the retriever's first candidate
C26_Witness ==
    /\ PipeSearched
    /\ lastOp.rerank
    /\ lastOp.limit = 1
    /\ Len(results) = 1
    /\ Len(Candidates(3)) >= 2
    /\ results[1].chunk # Candidates(3)[1].chunk

\* C27 as stated: when research returns normally and the deadline has not
\* been reached, every task created for the call is completed, failed or
\* timeout, under any strategy.
C27_AllTasksTerminalAtReturn ==
    [][(outcome = "none" /\ outcome' = "returned" /\ now <= timeout) =>
          \A t \in DOMAIN tasks' : tasks'[t].status \in Terminal]_vars

\* C28 as stated: in every reachable state a task whose status is completed
\* has an empty error, and a task has a populated error only while its
\* status is failed.
C28_ErrorOnlyWhileFailed ==
    \A t \in DOMAIN tasks :
       /\ tasks[t].status = "completed" => tasks[t].error = None
       /\ tasks[t].error # None => tasks[t].status = "failed"

\* C29 as stated: once a research call has returned or raised, no task of
\* that call is modified any more.
C29_TasksFrozenAfterCall ==
    [][outcome # "none" => tasks' = tasks]_vars

\* C30 as stated: a numeric_conflict is reported only for a label whose
\* values come from at least two different findings, and every conflict
\* lists at least two distinct agents.
FindingsWith(key) ==
    {i \in 1..Len(synFindings) :
       \E k \in 1..Len(Extracted(<<synFindings[i]>>)) :
          Extracted(<<synFindings[i]>>)[k].key = key}

C30_ConflictNeedsTwoFindings ==
    synPc = "done" =>
        \A i \in 1..Len(conflicts) :
           /\ Cardinality(FindingsWith(conflicts[i].context)) >= 2
           /\ Cardinality({conflicts[i].values[k][1] :
                              k \in 1..Len(conflicts[i].values)}) >= 2

====
